---------------------------- MODULE Spec2Model ----------------------------
(***************************************************************************)
(* A model of the Payriff gateway client (src/src/PayriffSDK.ts).          *)
(*                                                                         *)
(* The state is the host process environment, the class's static fields    *)
(* (read from the environment when the class is evaluated), the one client *)
(* instance with the configuration it was constructed from, the calls in   *)
(* flight, and the last isSuccessful invocation.  A call is one run of     *)
(* createOrder / getOrderInfo / refund / complete / autoPay: it calls      *)
(* fetch (the request is recorded as the arguments handed to fetch), then  *)
(* waits for the transport, then for response.json().                      *)
(*                                                                         *)
(* JavaScript values are records [type, val]; objects are functions from   *)
(* the keys they own to values, so that "key absent" and "key present with *)
(* the value undefined" are different objects.                             *)
(***************************************************************************)
EXTENDS Integers, Sequences, FiniteSets, TLC

VARIABLES env, statics, config, client, calls, checked

vars == <<env, statics, config, client, calls, checked>>

---------------------------------------------------------------------------
(* JavaScript values *)

Undefined == [type |-> "undefined", val |-> ""]
Null == [type |-> "null", val |-> ""]
Str(s) == [type |-> "string", val |-> s]
Num(s) == [type |-> "number", val |-> s]
Bool(s) == [type |-> "boolean", val |-> s]
Obj(fields) == [type |-> "object", val |-> fields]

\* a property read: obj.k is undefined when obj does not own k
Get(fields, k) == IF k \in DOMAIN fields THEN fields[k] ELSE Undefined

\* ToBoolean: undefined, null, "", 0, NaN and false are falsy
Truthy(v) ==
    CASE v.type = "undefined" -> FALSE
      [] v.type = "null" -> FALSE
      [] v.type = "string" -> v.val # ""
      [] v.type = "number" -> v.val \notin {"0", "NaN"}
      [] v.type = "boolean" -> v.val = "true"
      [] OTHER -> TRUE

\* a || b
Or(a, b) == IF Truthy(a) THEN a ELSE b

\* { ...a, ...b }: every own key of b, undefined-valued ones included,
\* overwrites the key of a
ObjectSpread(a, b) ==
    [k \in DOMAIN a \cup DOMAIN b |-> IF k \in DOMAIN b THEN b[k] ELSE a[k]]

\* `${v}` for the values a template is applied to here
TemplateString(v) == IF v.type = "undefined" THEN "undefined" ELSE v.val

\* JSON.stringify of a number, string or boolean member: a non-finite
\* number is written as null
JSONvalue(v) ==
    IF v.type = "number" /\ v.val \in {"NaN", "Infinity", "-Infinity"}
    THEN Null
    ELSE v

\* JSON.stringify(object), as the JSON document the text denotes: members
\* whose value is undefined are left out
JSONstringify(fields) ==
    [k \in {j \in DOMAIN fields : fields[j].type # "undefined"} |->
        JSONvalue(fields[k])]

\* an object literal built from a choice per key, Absent meaning the key is
\* not written
Absent == [type |-> "absent", val |-> ""]
Literal(f) == [k \in {j \in DOMAIN f : f[j] # Absent} |-> f[k]]

---------------------------------------------------------------------------
(* The class PayriffSDK *)

\* mutant: the endpoint of the previous API version
DEFAULT_BASE_URL_V2 == Str("https://api.payriff.com/api/v2")

DEFAULT_BASE_URL == Str("https://api.payriff.com/api/v3")
DEFAULT_LANGUAGE == Str("AZ")
DEFAULT_CURRENCY == Str("AZN")

\* mutant: the environment's values are taken as they are, undefined when
\* a variable is unset
StaticDefaults_NoEmptyFallback(e) ==
    [DEFAULT_SECRET_KEY |-> e.PAYRIFF_SECRET_KEY,
     DEFAULT_CALLBACK_URL |-> e.PAYRIFF_CALLBACK_URL]

\* static DEFAULT_SECRET_KEY / DEFAULT_CALLBACK_URL: process.env.X || ''
StaticDefaults(e) ==
    [DEFAULT_SECRET_KEY |-> Or(e.PAYRIFF_SECRET_KEY, Str("")),
     DEFAULT_CALLBACK_URL |-> Or(e.PAYRIFF_CALLBACK_URL, Str(""))]

\* an operation's completion: it returns a value or throws one
Normal(v) == [type |-> "normal", val |-> v]
Throw(v) == [type |-> "throw", val |-> v]

\* mutant: the key is sent as a bearer token
constructor_BearerPrefix(arg, st) ==
    LET cfg == IF arg.type = "undefined" THEN << >> ELSE arg.val
        secretKey == Or(Get(cfg, "secretKey"), st.DEFAULT_SECRET_KEY)
    IN  Normal(
        [baseUrl |-> Or(Get(cfg, "baseUrl"), DEFAULT_BASE_URL),
         secretKey |-> secretKey,
         defaultLanguage |-> Or(Get(cfg, "defaultLanguage"), DEFAULT_LANGUAGE),
         defaultCurrency |-> Or(Get(cfg, "defaultCurrency"), DEFAULT_CURRENCY),
         defaultCallbackUrl |->
             Or(Get(cfg, "defaultCallbackUrl"), st.DEFAULT_CALLBACK_URL),
         headers |-> ("Authorization" :> Str("Bearer " \o secretKey.val))
                     @@ ("Content-Type" :> Str("application/json"))])

\* mutant: construction fails without a secret key
constructor_RequiresSecretKey(arg, st) ==
    LET cfg == IF arg.type = "undefined" THEN << >> ELSE arg.val
        secretKey == Or(Get(cfg, "secretKey"), st.DEFAULT_SECRET_KEY)
    IN  IF ~Truthy(secretKey) THEN Throw(Str("Error: secretKey is required"))
        ELSE Normal(
        [baseUrl |-> Or(Get(cfg, "baseUrl"), DEFAULT_BASE_URL),
         secretKey |-> secretKey,
         defaultLanguage |-> Or(Get(cfg, "defaultLanguage"), DEFAULT_LANGUAGE),
         defaultCurrency |-> Or(Get(cfg, "defaultCurrency"), DEFAULT_CURRENCY),
         defaultCallbackUrl |->
             Or(Get(cfg, "defaultCallbackUrl"), st.DEFAULT_CALLBACK_URL),
         headers |-> ("Authorization" :> secretKey)
                     @@ ("Content-Type" :> Str("application/json"))])

\* mutant: the fallbacks are taken with ??, for undefined and null only
constructor_NullishCoalescing(arg, st) ==
    LET cfg == IF arg.type = "undefined" THEN << >> ELSE arg.val
        Coalesce(a, b) == IF a.type \in {"undefined", "null"} THEN b ELSE a
        secretKey == Coalesce(Get(cfg, "secretKey"), st.DEFAULT_SECRET_KEY)
    IN  Normal(
        [baseUrl |-> Coalesce(Get(cfg, "baseUrl"), DEFAULT_BASE_URL),
         secretKey |-> secretKey,
         defaultLanguage |->
             Coalesce(Get(cfg, "defaultLanguage"), DEFAULT_LANGUAGE),
         defaultCurrency |->
             Coalesce(Get(cfg, "defaultCurrency"), DEFAULT_CURRENCY),
         defaultCallbackUrl |->
             Coalesce(Get(cfg, "defaultCallbackUrl"), st.DEFAULT_CALLBACK_URL),
         headers |-> ("Authorization" :> secretKey)
                     @@ ("Content-Type" :> Str("application/json"))])

\* constructor(config = {}): its completion, the fields of the new instance
constructor(arg, st) ==
    LET cfg == IF arg.type = "undefined" THEN << >> ELSE arg.val
        secretKey == Or(Get(cfg, "secretKey"), st.DEFAULT_SECRET_KEY)
    IN  Normal(
        [baseUrl |-> Or(Get(cfg, "baseUrl"), DEFAULT_BASE_URL),
         secretKey |-> secretKey,
         defaultLanguage |-> Or(Get(cfg, "defaultLanguage"), DEFAULT_LANGUAGE),
         defaultCurrency |-> Or(Get(cfg, "defaultCurrency"), DEFAULT_CURRENCY),
         defaultCallbackUrl |->
             Or(Get(cfg, "defaultCallbackUrl"), st.DEFAULT_CALLBACK_URL),
         headers |-> ("Authorization" :> secretKey)
                     @@ ("Content-Type" :> Str("application/json"))])

\* makeRequest up to its await: the arguments it hands to fetch.  The init
\* object owns "body" only when body is truthy.
makeRequest(this, endpoint, method, body) ==
    [url |-> TemplateString(this.baseUrl) \o endpoint,
     init |-> ("method" :> Str(method)) @@ ("headers" :> this.headers)
              @@ (IF Truthy(body)
                  THEN ("body" :> JSONstringify(body.val))
                  ELSE << >>)]

\* mutant: the cardSave default is forgotten
createOrderDefaulted_NoCardSave(this, request) ==
    ObjectSpread(
        ("language" :> this.defaultLanguage)
        @@ ("currency" :> this.defaultCurrency)
        @@ ("callbackUrl" :> this.defaultCallbackUrl)
        @@ ("operation" :> Str("PURCHASE")),
        request)

\* mutant: the defaults are spread after the caller's fields
createOrderDefaulted_DefaultsLast(this, request) ==
    ObjectSpread(
        request,
        ("language" :> this.defaultLanguage)
        @@ ("currency" :> this.defaultCurrency)
        @@ ("callbackUrl" :> this.defaultCallbackUrl)
        @@ ("cardSave" :> Bool("false"))
        @@ ("operation" :> Str("PURCHASE")))

\* createOrder's defaultedRequest: the defaults, then the caller's fields
createOrderDefaulted(this, request) ==
    ObjectSpread(
        ("language" :> this.defaultLanguage)
        @@ ("currency" :> this.defaultCurrency)
        @@ ("callbackUrl" :> this.defaultCallbackUrl)
        @@ ("cardSave" :> Bool("false"))
        @@ ("operation" :> Str("PURCHASE")),
        request)

\* mutant: autoPay takes the defaults of createOrder
autoPayDefaulted_AsCreateOrder(this, request) ==
    ObjectSpread(
        ("language" :> this.defaultLanguage)
        @@ ("currency" :> this.defaultCurrency)
        @@ ("callbackUrl" :> this.defaultCallbackUrl)
        @@ ("cardSave" :> Bool("false"))
        @@ ("operation" :> Str("PURCHASE")),
        request)

\* autoPay's defaultedRequest
autoPayDefaulted(this, request) ==
    ObjectSpread(
        ("currency" :> this.defaultCurrency)
        @@ ("callbackUrl" :> this.defaultCallbackUrl)
        @@ ("operation" :> Str("PURCHASE")),
        request)

\* the five operations up to the await in makeRequest: what each hands to
\* fetch.  arg is the caller's argument: a request object, or for
\* getOrderInfo the order identifier.
createOrder(this, arg) ==
    makeRequest(this, "/orders", "POST", Obj(createOrderDefaulted(this, arg.val)))

\* mutant: the identifier goes in the query string
getOrderInfo_QueryString(this, arg) ==
    makeRequest(this, "/orders?orderId=" \o TemplateString(arg), "GET",
                Undefined)

getOrderInfo(this, arg) ==
    makeRequest(this, "/orders/" \o TemplateString(arg), "GET", Undefined)

\* mutant: refund backfills the currency like autoPay
refund_Defaulted(this, arg) ==
    makeRequest(this, "/refund", "POST",
                Obj(ObjectSpread(("currency" :> this.defaultCurrency),
                                 arg.val)))

refund(this, arg) == makeRequest(this, "/refund", "POST", arg)

complete(this, arg) == makeRequest(this, "/complete", "POST", arg)

autoPay(this, arg) ==
    makeRequest(this, "/autoPay", "POST", Obj(autoPayDefaulted(this, arg.val)))

\* mutant: every SUCCESS_* result code counts
isSuccessful_AnySuccessCode(code) ==
    code \in {Str("00000"), Str("00"), Str("APPROVED"),
              Str("PREAUTH-APPROVED")}

\* isSuccessful(code)
isSuccessful(code) == code = Str("00000") \/ code = Str("00")

ResultCodes ==
    [SUCCESS |-> "00000",
     SUCCESS_GATEWAY |-> "00",
     SUCCESS_GATEWAY_APPROVE |-> "APPROVED",
     SUCCESS_GATEWAY_PREAUTH_APPROVE |-> "PREAUTH-APPROVED",
     WARNING |-> "01000",
     ERROR |-> "15000",
     INVALID_PARAMETERS |-> "15400",
     UNAUTHORIZED |-> "14010",
     TOKEN_NOT_PRESENT |-> "14013",
     INVALID_TOKEN |-> "14014"]

---------------------------------------------------------------------------
(* The transport and response.json() *)

\* response bodies the gateway or a proxy in front of it may send
BodySuccess ==
    "{\"code\":\"00000\",\"message\":\"OK\",\"route\":\"/api/v3/orders\",\"internalMessage\":null,\"responseId\":\"R1\",\"payload\":{\"orderId\":\"X\"}}"
BodyError == "{\"code\":\"15400\",\"message\":\"Invalid parameters\"}"
BodyHtml == "<html>502 Bad Gateway</html>"
BodyCut == "{\"code\":\"00000\",\"mess"

\* response.json(): the body parsed, or a SyntaxError
ResponseJson(body) ==
    CASE body = BodySuccess ->
           Normal(Obj(("code" :> Str("00000")) @@ ("message" :> Str("OK"))
                      @@ ("route" :> Str("/api/v3/orders"))
                      @@ ("internalMessage" :> Null)
                      @@ ("responseId" :> Str("R1"))
                      @@ ("payload" :> Obj(("orderId" :> Str("X"))))))
      [] body = BodyError ->
           Normal(Obj(("code" :> Str("15400"))
                      @@ ("message" :> Str("Invalid parameters"))))
      [] OTHER -> Throw(Str("SyntaxError"))

\* mutant: a body that does not parse yields an empty envelope
makeRequestReturn_CatchParseError(response) ==
    LET json == ResponseJson(response.body)
    IN  IF json.type = "throw" THEN Normal(Obj(<< >>)) ELSE json

\* mutant: a status outside 2xx is thrown as an error
makeRequestReturn_ThrowOnHttpError(response) ==
    IF response.status < 200 \/ response.status > 299
    THEN Throw(Str("Error: HTTP error"))
    ELSE ResponseJson(response.body)

\* makeRequest's "return response.json()": the call completes as the promise
\* of response.json() does; response.status and response.ok are not read
makeRequestReturn(response) == ResponseJson(response.body)

\* mutant: the defaults are assigned into the caller's object
RequestAfter_DefaultsInPlace(op, this, arg) ==
    CASE op = "createOrder" -> Obj(createOrderDefaulted(this, arg.val))
      [] op = "autoPay" -> Obj(autoPayDefaulted(this, arg.val))
      [] OTHER -> arg

\* the caller's argument as the operation leaves it: no operation assigns to
\* its argument, createOrder and autoPay spread it into a new object
RequestAfter(op, this, arg) == arg

---------------------------------------------------------------------------
(* The state machine.  U names the inputs a specification draws from: the  *)
(* environments, the constructor arguments, the arguments of each          *)
(* operation, the responses of the transport, the codes given to           *)
(* isSuccessful and the call slots.                                        *)

NoResponse == [status |-> 0, body |-> ""]

\* given is the argument as the caller built it, arg the same object as it
\* is now
Idle ==
    [op |-> "", pc |-> "idle", given |-> Undefined, arg |-> Undefined,
     fetched |-> << >>, response |-> NoResponse, result |-> Undefined]

NoCheck == [code |-> "", result |-> FALSE, done |-> FALSE]

InitOver(U) ==
    /\ env \in U.envs
    /\ statics = Undefined
    /\ config = Undefined
    /\ client = Undefined
    /\ calls = [c \in U.ids |-> Idle]
    /\ checked = NoCheck

\* the host program (or a dotenv loader) sets or deletes the variables
SetEnv(U) ==
    /\ \E e \in U.envs : e # env /\ env' = e
    /\ UNCHANGED <<statics, config, client, calls, checked>>

\* the class is evaluated (the module is imported): its static initializers
\* read the environment
LoadModule ==
    /\ statics = Undefined
    /\ statics' = Obj(StaticDefaults(env))
    /\ UNCHANGED <<env, config, client, calls, checked>>

\* new PayriffSDK(arg)
Construct(U) ==
    /\ statics.type = "object"
    /\ client = Undefined
    /\ \E arg \in U.configs :
         LET r == constructor(arg, statics.val)
         IN  /\ config' = arg
             /\ client' = IF r.type = "normal" THEN Obj(r.val) ELSE r
    /\ UNCHANGED <<env, statics, calls, checked>>

\* mutant: createOrder remembers the language of the last order as the
\* client's default
Start_RemembersLanguage(c, op, arg, f) ==
    /\ client.type = "object"
    /\ calls[c].pc = "idle"
    /\ calls' = [calls EXCEPT ![c] =
                   [op |-> op, pc |-> "fetch", given |-> arg,
                    arg |-> arg,
                    fetched |-> Append(calls[c].fetched, f),
                    response |-> NoResponse, result |-> Undefined]]
    /\ client' = IF op = "createOrder" /\ Truthy(Get(arg.val, "language"))
                 THEN [client EXCEPT !.val.defaultLanguage =
                                         Get(arg.val, "language")]
                 ELSE client
    /\ UNCHANGED <<env, statics, config, checked>>

\* mutant: the operation does not await the request: the call has completed
\* as soon as fetch has been called
Start_NoAwait(c, op, arg, f) ==
    /\ client.type = "object"
    /\ calls[c].pc = "idle"
    /\ calls' = [calls EXCEPT ![c] =
                   [op |-> op, pc |-> "resolved", given |-> arg,
                    arg |-> arg,
                    fetched |-> Append(calls[c].fetched, f),
                    response |-> NoResponse, result |-> Undefined]]
    /\ UNCHANGED <<env, statics, config, client, checked>>

\* an operation is called in slot c and runs to its await: fetch has been
\* called with f
Start(c, op, arg, f) ==
    /\ client.type = "object"
    /\ calls[c].pc = "idle"
    /\ calls' = [calls EXCEPT ![c] =
                   [op |-> op, pc |-> "fetch", given |-> arg,
                    arg |-> RequestAfter(op, client.val, arg),
                    fetched |-> Append(calls[c].fetched, f),
                    response |-> NoResponse, result |-> Undefined]]
    /\ UNCHANGED <<env, statics, config, client, checked>>

CallCreateOrder(c, U) ==
    \E arg \in U.createOrder :
        Start(c, "createOrder", arg, createOrder(client.val, arg))

CallGetOrderInfo(c, U) ==
    \E arg \in U.orderIds :
        Start(c, "getOrderInfo", arg, getOrderInfo(client.val, arg))

CallRefund(c, U) ==
    \E arg \in U.refund : Start(c, "refund", arg, refund(client.val, arg))

CallComplete(c, U) ==
    \E arg \in U.complete :
        Start(c, "complete", arg, complete(client.val, arg))

CallAutoPay(c, U) ==
    \E arg \in U.autoPay : Start(c, "autoPay", arg, autoPay(client.val, arg))

\* mutant: a failed request is sent once more before the call gives up
FetchRejects_RetryOnce(c) ==
    /\ calls[c].pc = "fetch"
    /\ calls' = IF Len(calls[c].fetched) < 2
                THEN [calls EXCEPT ![c].fetched =
                                       Append(calls[c].fetched,
                                              calls[c].fetched[1])]
                ELSE [calls EXCEPT ![c].pc = "rejected",
                                   ![c].result = Str("TypeError: fetch failed")]
    /\ UNCHANGED <<env, statics, config, client, checked>>

\* the promise of fetch rejects (DNS, connection refused, timeout): the
\* await throws and the call rejects with it
FetchRejects(c) ==
    /\ calls[c].pc = "fetch"
    /\ calls' = [calls EXCEPT ![c].pc = "rejected",
                              ![c].result = Str("TypeError: fetch failed")]
    /\ UNCHANGED <<env, statics, config, client, checked>>

\* the promise of fetch resolves with a response, whatever its status, and
\* makeRequest returns response.json()
FetchResolves(c, U) ==
    /\ calls[c].pc = "fetch"
    /\ \E r \in U.responses :
         calls' = [calls EXCEPT ![c].pc = "json", ![c].response = r]
    /\ UNCHANGED <<env, statics, config, client, checked>>

\* mutant: the response is kept in a field of the client, so a call reads
\* the latest response any call has received
JsonSettles_SharedResponse(c) ==
    /\ calls[c].pc = "json"
    /\ LET last == CHOOSE d \in DOMAIN calls :
                       /\ calls[d].response # NoResponse
                       /\ \A e \in DOMAIN calls :
                              calls[e].response # NoResponse => e <= d
           r == ResponseJson(calls[last].response.body)
       IN  calls' = [calls EXCEPT
                       ![c].pc = IF r.type = "normal" THEN "resolved"
                                 ELSE "rejected",
                       ![c].result = r.val]
    /\ UNCHANGED <<env, statics, config, client, checked>>

\* the promise of response.json() settles, and the call with it
JsonSettles(c) ==
    /\ calls[c].pc = "json"
    /\ LET r == makeRequestReturn(calls[c].response)
       IN  calls' = [calls EXCEPT
                       ![c].pc = IF r.type = "normal" THEN "resolved"
                                 ELSE "rejected",
                       ![c].result = r.val]
    /\ UNCHANGED <<env, statics, config, client, checked>>

\* the caller has taken the outcome; the slot is free for its next call
Return(c) ==
    /\ calls[c].pc \in {"resolved", "rejected"}
    /\ calls' = [calls EXCEPT ![c] = Idle]
    /\ UNCHANGED <<env, statics, config, client, checked>>

\* payriff.isSuccessful(code), synchronous
CallIsSuccessful(U) ==
    /\ client.type = "object"
    /\ \E code \in U.codes :
         checked' = [code |-> code, result |-> isSuccessful(Str(code)),
                     done |-> TRUE]
    /\ UNCHANGED <<env, statics, config, client, calls>>

NextOver(U) ==
    \/ SetEnv(U)
    \/ LoadModule
    \/ Construct(U)
    \/ CallIsSuccessful(U)
    \/ \E c \in U.ids :
         \/ CallCreateOrder(c, U)
         \/ CallGetOrderInfo(c, U)
         \/ CallRefund(c, U)
         \/ CallComplete(c, U)
         \/ CallAutoPay(c, U)
         \/ FetchRejects(c)
         \/ FetchResolves(c, U)
         \/ JsonSettles(c)
         \/ Return(c)

---------------------------------------------------------------------------
(* Inputs *)

MaxCalls == 2

Env(key, cb) == [PAYRIFF_SECRET_KEY |-> key, PAYRIFF_CALLBACK_URL |-> cb]

EnvKey == Str("ENV-KEY")
EnvCallback == Str("https://env.example/callback")

Config(baseUrl, secretKey, language, currency, callbackUrl) ==
    Obj(Literal(("baseUrl" :> baseUrl) @@ ("secretKey" :> secretKey)
                @@ ("defaultLanguage" :> language)
                @@ ("defaultCurrency" :> currency)
                @@ ("defaultCallbackUrl" :> callbackUrl)))

CreateOrderRequest(amount, language, currency, cardSave, operation, cb) ==
    Obj(Literal(("amount" :> amount) @@ ("description" :> Str("Product"))
                @@ ("language" :> language) @@ ("currency" :> currency)
                @@ ("cardSave" :> cardSave) @@ ("operation" :> operation)
                @@ ("callbackUrl" :> cb)))

AutoPayRequest(amount, currency, operation, cb) ==
    Obj(Literal(("cardUuid" :> Str("CARD")) @@ ("amount" :> amount)
                @@ ("description" :> Str("Renewal"))
                @@ ("currency" :> currency) @@ ("operation" :> operation)
                @@ ("callbackUrl" :> cb)))

RefundRequest(orderId, amount) ==
    Obj(("orderId" :> orderId) @@ ("amount" :> amount))

Amounts == {Num("0"), Num("10.99")}
OrderIds == {Str("X"), Str("7f3a/9 b")}

Codes ==
    {ResultCodes[k] : k \in DOMAIN ResultCodes}
    \cup {"", "0", "000", "000000", "00000 ", "SUCCESS"}

\* few of everything, several calls in flight
Narrow ==
    [envs |-> {Env(Undefined, Undefined), Env(EnvKey, Undefined)},
     configs |-> {Undefined},
     createOrder |-> {CreateOrderRequest(Num("10.99"), Absent, Absent, Absent,
                                         Absent, Absent)},
     autoPay |-> {AutoPayRequest(Num("10.99"), Absent, Absent, Absent)},
     refund |-> {RefundRequest(Str("X"), Num("10.99"))},
     complete |-> {RefundRequest(Str("X"), Num("10.99"))},
     orderIds |-> {Str("X")},
     responses |-> {[status |-> 200, body |-> BodySuccess],
                    [status |-> 400, body |-> BodyError],
                    [status |-> 502, body |-> BodyHtml],
                    [status |-> 200, body |-> BodyCut]},
     codes |-> {"00000"},
     ids |-> 1..MaxCalls]

Init == InitOver(Narrow)
Next == NextOver(Narrow)
Spec == Init /\ [][Next]_vars

\* several calls in flight, one response that parses and one that does
\* not, the secret key unset or empty in the environment
Answers ==
    [Narrow EXCEPT !.envs = {Env(Undefined, Undefined),
                             Env(Str(""), Undefined)},
                   !.responses = {[status |-> 200, body |-> BodySuccess],
                                  [status |-> 502, body |-> BodyHtml]}]

InitLive == InitOver(Answers)
NextLive == NextOver(Answers)

\* the transport answers every request it was given, with a response or a
\* failure, and the body of a response that has arrived is read to its end;
\* the event loop then runs the continuation of the await
Fairness ==
    \A c \in Answers.ids :
        /\ WF_vars(FetchRejects(c) \/ FetchResolves(c, Answers))
        /\ WF_vars(JsonSettles(c))

SpecLive == InitLive /\ [][NextLive]_vars /\ Fairness

\* one call at a time, every configuration and environment
WideConfig ==
    [envs |-> {Env(k, cb) : k \in {Undefined, Str(""), EnvKey},
                            cb \in {Undefined, EnvCallback}},
     configs |->
        {Undefined} \cup
        {Config(b, k, l, cur, cb) :
            b \in {Absent, Str(""), Str("https://sandbox.example/api")},
            k \in {Absent, Str(""), Str("S")},
            l \in {Absent, Str("EN")},
            cur \in {Absent, Str("USD")},
            cb \in {Absent, Str(""), Str("https://merchant.example/cb")}},
     createOrder |->
        {CreateOrderRequest(Num("10.99"), Absent, Absent, Absent, Absent,
                            Absent),
         CreateOrderRequest(Num("0"), Str("RU"), Str("EUR"), Bool("true"),
                            Str("PRE_AUTH"), Str("https://order.example/cb"))},
     autoPay |-> {AutoPayRequest(Num("10.99"), Absent, Absent, Absent)},
     refund |-> {RefundRequest(Str("X"), Num("10.99"))},
     complete |-> {RefundRequest(Str("X"), Num("10.99"))},
     orderIds |-> OrderIds,
     responses |-> {[status |-> 200, body |-> BodySuccess],
                    [status |-> 502, body |-> BodyHtml]},
     codes |-> {"00000"},
     ids |-> {1}]

\* one call at a time, every request against every set of defaults
WideBody ==
    [envs |-> {Env(Undefined, Undefined), Env(Undefined, EnvCallback)},
     configs |->
        {Config(Absent, Absent, l, cur, cb) :
            l \in {Absent, Str("EN")},
            cur \in {Absent, Str("USD")},
            cb \in {Absent, Str("https://merchant.example/cb")}},
     createOrder |->
        {CreateOrderRequest(a, l, cur, save, op, cb) :
            a \in Amounts,
            l \in {Absent, Undefined, Str("RU")},
            cur \in {Absent, Undefined, Str("EUR")},
            save \in {Absent, Undefined, Bool("false"), Bool("true")},
            op \in {Absent, Undefined, Str("PRE_AUTH")},
            cb \in {Absent, Undefined, Str(""),
                    Str("https://order.example/cb")}},
     autoPay |->
        {AutoPayRequest(a, cur, op, cb) :
            a \in Amounts,
            cur \in {Absent, Undefined, Str("EUR")},
            op \in {Absent, Undefined, Str("PRE_AUTH")},
            cb \in {Absent, Undefined, Str(""),
                    Str("https://order.example/cb")}},
     refund |-> {RefundRequest(o, a) : o \in OrderIds, a \in Amounts},
     complete |-> {RefundRequest(o, a) : o \in OrderIds, a \in Amounts},
     orderIds |-> OrderIds,
     responses |-> {[status |-> 200, body |-> BodySuccess]},
     codes |-> {"00000"},
     ids |-> {1}]

\* one call at a time, every code
WideCodes == [Narrow EXCEPT !.codes = Codes, !.ids = {1}]

\* one call at a time, every status with every body
WideResponses ==
    [Narrow EXCEPT
        !.responses = {[status |-> st, body |-> b] :
                          st \in {200, 201, 302, 400, 404, 500, 502},
                          b \in {BodySuccess, BodyError, BodyHtml, BodyCut}},
        !.ids = {1}]

InitConfig == InitOver(WideConfig)
NextConfig == NextOver(WideConfig)
SpecConfig == InitConfig /\ [][NextConfig]_vars

InitBody == InitOver(WideBody)
NextBody == NextOver(WideBody)
SpecBody == InitBody /\ [][NextBody]_vars

InitCodes == InitOver(WideCodes)
NextCodes == NextOver(WideCodes)
SpecCodes == InitCodes /\ [][NextCodes]_vars

InitResponses == InitOver(WideResponses)
NextResponses == NextOver(WideResponses)
SpecResponses == InitResponses /\ [][NextResponses]_vars

---------------------------------------------------------------------------
(* Properties *)

Slots == DOMAIN calls
Called(c, op) == calls[c].pc # "idle" /\ calls[c].op = op
Sent(c) == calls[c].fetched[1]
SentBody(c) == Sent(c).init["body"]
Request(c) == calls[c].given.val
Url(path) == client.val.baseUrl.val \o path

CreateOrderOptional ==
    {"language", "currency", "callbackUrl", "cardSave", "operation"}
AutoPayOptional == {"currency", "callbackUrl", "operation"}

\* the default the documentation gives each optional field
DefaultOf(k) ==
    CASE k = "language" -> client.val.defaultLanguage
      [] k = "currency" -> client.val.defaultCurrency
      [] k = "callbackUrl" -> client.val.defaultCallbackUrl
      [] k = "cardSave" -> Bool("false")
      [] k = "operation" -> Str("PURCHASE")

PostedTo(c, path) ==
    /\ Len(calls[c].fetched) = 1
    /\ Sent(c).url = Url(path)
    /\ Sent(c).init["method"] = Str("POST")
    /\ "body" \in DOMAIN Sent(c).init

\* C1: every createOrder call is a POST to /orders whose body carries, for
\* each optional field whose key the request does not have, the default:
\* the client's default language, currency and callback URL, cardSave
\* false, operation PURCHASE.
C1_CreateOrderDefaults ==
    \A c \in Slots :
        Called(c, "createOrder") =>
            /\ PostedTo(c, "/orders")
            /\ \A k \in CreateOrderOptional \ DOMAIN Request(c) :
                   /\ k \in DOMAIN SentBody(c)
                   /\ SentBody(c)[k] = DefaultOf(k)

\* a createOrder call that gave only amount and description, on a client
\* configured with a default language, currency and callback URL of its own
C1_Witness ==
    \E c \in Slots :
        /\ Called(c, "createOrder")
        /\ DOMAIN Request(c) = {"amount", "description"}
        /\ client.val.defaultLanguage = Str("EN")
        /\ client.val.defaultCurrency = Str("USD")
        /\ client.val.defaultCallbackUrl = Str("https://merchant.example/cb")
        /\ SentBody(c)["language"] = Str("EN")
        /\ SentBody(c)["cardSave"] = Bool("false")

Supplied(c) == {k \in DOMAIN Request(c) : Request(c)[k].type # "undefined"}

\* C2: in createOrder and autoPay every field the caller supplies (a key of
\* the request with a value other than undefined) is in the body with the
\* caller's value, whatever the defaults are.
C2_CallerWins ==
    \A c \in Slots :
        Called(c, "createOrder") \/ Called(c, "autoPay") =>
            \A k \in Supplied(c) :
                /\ k \in DOMAIN SentBody(c)
                /\ SentBody(c)[k] = Request(c)[k]

\* a createOrder call that supplied all five optional fields, each unlike
\* the default it overrides
C2_Witness ==
    \E c \in Slots :
        /\ Called(c, "createOrder")
        /\ CreateOrderOptional \subseteq Supplied(c)
        /\ \A k \in CreateOrderOptional \ {"cardSave"} :
               /\ Request(c)[k] # DefaultOf(k)
               /\ SentBody(c)[k] = Request(c)[k]
        /\ Request(c)["cardSave"] = Bool("true")
        /\ client.val.defaultLanguage = Str("EN")

OptionalOf(c) ==
    IF calls[c].op = "createOrder" THEN CreateOrderOptional
    ELSE AutoPayOptional

\* C3: in createOrder and autoPay an optional field is backfilled with its
\* default exactly when its key is absent from the request or its value is
\* undefined; any other value, 0, false and "" included, is sent as given.
C3_BackfillIffAbsentOrUndefined ==
    \A c \in Slots :
        Called(c, "createOrder") \/ Called(c, "autoPay") =>
            /\ \A k \in OptionalOf(c) :
                   /\ k \in DOMAIN SentBody(c)
                   /\ SentBody(c)[k] =
                          IF k \in Supplied(c) THEN Request(c)[k]
                          ELSE DefaultOf(k)
            /\ \A k \in Supplied(c) : SentBody(c)[k] = Request(c)[k]

\* C4: every autoPay call is a POST to /autoPay whose body has the caller's
\* fields and, for each of currency, callbackUrl and operation whose key the
\* request does not have, the default; nothing else is added, so no language
\* and no cardSave.
C4_AutoPayDefaults ==
    \A c \in Slots :
        Called(c, "autoPay") =>
            /\ PostedTo(c, "/autoPay")
            /\ \A k \in AutoPayOptional \ DOMAIN Request(c) :
                   /\ k \in DOMAIN SentBody(c)
                   /\ SentBody(c)[k] = DefaultOf(k)
            /\ \A k \in Supplied(c) :
                   /\ k \in DOMAIN SentBody(c)
                   /\ SentBody(c)[k] = Request(c)[k]
            /\ DOMAIN SentBody(c) \subseteq Supplied(c) \cup AutoPayOptional
            /\ {"language", "cardSave"} \cap DOMAIN SentBody(c) = {}

\* an autoPay call that gave none of the optional fields, on a client whose
\* default currency and callback URL were configured
C4_Witness ==
    \E c \in Slots :
        /\ Called(c, "autoPay")
        /\ DOMAIN Request(c) = {"cardUuid", "amount", "description"}
        /\ client.val.defaultLanguage = Str("EN")
        /\ SentBody(c)["currency"] = Str("USD")
        /\ SentBody(c)["callbackUrl"] = Str("https://merchant.example/cb")
        /\ SentBody(c)["operation"] = Str("PURCHASE")
        /\ DOMAIN SentBody(c) =
               {"cardUuid", "amount", "description", "currency",
                "callbackUrl", "operation"}

\* C5: isSuccessful(code) is true exactly for "00000" and "00"; it is false
\* for "", "15400", "APPROVED" and "PREAUTH-APPROVED".
C5_IsSuccessful ==
    checked.done =>
        /\ checked.result = (checked.code \in {"00000", "00"})
        /\ checked.code \in {"", "15400", ResultCodes.SUCCESS_GATEWAY_APPROVE,
                             ResultCodes.SUCCESS_GATEWAY_PREAUTH_APPROVE}
               => ~checked.result

\* isSuccessful was given the result code APPROVED and answered false
C5_Witness ==
    /\ checked.done
    /\ checked.code = "APPROVED"
    /\ ~checked.result

\* C6: getOrderInfo(X) calls fetch once, with the client's base URL followed
\* by "/orders/" and X as given, method GET, and no body.
C6_GetOrderInfo ==
    \A c \in Slots :
        Called(c, "getOrderInfo") =>
            /\ Len(calls[c].fetched) = 1
            /\ Sent(c).url = client.val.baseUrl.val \o "/orders/"
                                 \o calls[c].arg.val
            /\ Sent(c).init["method"] = Str("GET")
            /\ "body" \notin DOMAIN Sent(c).init

\* getOrderInfo of an identifier with a slash and a space, on a client with
\* a base URL of its own
C6_Witness ==
    \E c \in Slots :
        /\ Called(c, "getOrderInfo")
        /\ calls[c].arg = Str("7f3a/9 b")
        /\ Sent(c).url = "https://sandbox.example/api/orders/7f3a/9 b"

\* C7: refund and complete POST to /refund and /complete a body with exactly
\* the fields and values of the caller's request, whatever the client's
\* configuration.
C7_RefundCompleteVerbatim ==
    \A c \in Slots :
        /\ Called(c, "refund") =>
               PostedTo(c, "/refund") /\ SentBody(c) = Request(c)
        /\ Called(c, "complete") =>
               PostedTo(c, "/complete") /\ SentBody(c) = Request(c)

\* a refund of amount 0 on a client configured with defaults of its own
C7_Witness ==
    \E c \in Slots :
        /\ Called(c, "refund")
        /\ client.val.defaultCurrency = Str("USD")
        /\ client.val.defaultCallbackUrl = Str("https://merchant.example/cb")
        /\ Request(c)["amount"] = Num("0")
        /\ DOMAIN SentBody(c) = {"orderId", "amount"}

Constructed == client # Undefined
HasKey(k) == config.type = "object" /\ k \in DOMAIN config.val

HeadersAre(authorization) ==
    \A c \in Slots :
        \A i \in 1..Len(calls[c].fetched) :
            LET h == calls[c].fetched[i].init["headers"]
            IN  /\ h["Authorization"] = authorization
                /\ h["Content-Type"] = Str("application/json")

\* C8 as stated: a client constructed with an explicit secretKey S sends
\* every request with Authorization equal to S and Content-Type
\* application/json.
C8_ExplicitSecretKeyVerbatim ==
    Constructed /\ HasKey("secretKey") =>
        client.type = "object" /\ HeadersAre(config.val["secretKey"])

\* C8 as amended: a client constructed with an explicit, non-empty secretKey
\* S sends every request of every operation, after any earlier calls, with
\* Authorization equal to S and Content-Type application/json.
C8_NonEmptySecretKeyVerbatim ==
    Constructed /\ HasKey("secretKey") /\ Truthy(config.val["secretKey"]) =>
        client.type = "object" /\ HeadersAre(config.val["secretKey"])

\* a request in flight of a client given the key S, while the environment
\* held another key when the class read it
C8_Witness ==
    /\ HasKey("secretKey")
    /\ config.val["secretKey"] = Str("S")
    /\ statics.val.DEFAULT_SECRET_KEY = EnvKey
    /\ \E c \in Slots :
           /\ Called(c, "autoPay")
           /\ Sent(c).init["headers"]["Authorization"] = Str("S")

\* C9: when the configuration has no secretKey and the environment gave the
\* class none, construction completes normally and every request carries an
\* empty Authorization header.
C9_NoSecretKeyAnywhere ==
    /\ Constructed
    /\ ~HasKey("secretKey")
    /\ statics.val.DEFAULT_SECRET_KEY = Str("")
    => client.type = "object" /\ HeadersAre(Str(""))

\* a request in flight of a client constructed with no argument while
\* PAYRIFF_SECRET_KEY was and is unset
C9_Witness ==
    /\ Constructed
    /\ config = Undefined
    /\ env.PAYRIFF_SECRET_KEY = Undefined
    /\ statics.val.DEFAULT_SECRET_KEY = Str("")
    /\ \E c \in Slots :
           /\ Called(c, "createOrder")
           /\ Sent(c).init["headers"]["Authorization"] = Str("")

Unparseable(c) ==
    /\ calls[c].response # NoResponse
    /\ ResponseJson(calls[c].response.body).type = "throw"

\* C10: a call whose response body does not parse as JSON never resolves:
\* once response.json() has settled the call is rejected with the parse
\* error.
C10_UnparseableBodyRejects ==
    \A c \in Slots :
        Unparseable(c) =>
            /\ calls[c].pc \in {"json", "rejected"}
            /\ calls[c].pc = "rejected" =>
                   calls[c].result = Str("SyntaxError")

\* a call rejected on a 200 response whose body was cut short, beside one
\* rejected on a proxy's HTML error page
C10_Witness ==
    \E c, d \in Slots :
        /\ calls[c].pc = "rejected"
        /\ calls[c].response = [status |-> 200, body |-> BodyCut]
        /\ calls[d].pc = "rejected"
        /\ calls[d].response = [status |-> 502, body |-> BodyHtml]

Parseable(c) ==
    /\ calls[c].response # NoResponse
    /\ ResponseJson(calls[c].response.body).type = "normal"

\* C11: a call whose response body is valid JSON resolves with exactly the
\* parsed body, whatever the HTTP status and whatever the envelope's code;
\* whether a call with a response resolves or rejects is decided by the body
\* parsing alone.
C11_ParsedBodyPassedThrough ==
    \A c \in Slots :
        /\ Parseable(c) =>
               /\ calls[c].pc \in {"json", "resolved"}
               /\ calls[c].pc = "resolved" =>
                      calls[c].result =
                          ResponseJson(calls[c].response.body).val
        /\ calls[c].pc = "resolved" => Parseable(c)

\* a call resolved with the error envelope of a 500 response
C11_Witness ==
    \E c \in Slots :
        /\ calls[c].pc = "resolved"
        /\ calls[c].response = [status |-> 500, body |-> BodyError]
        /\ calls[c].result.val["code"] = Str("15400")
        /\ ~isSuccessful(calls[c].result.val["code"])

TransportFailure == Str("TypeError: fetch failed")

\* C12: a call has called fetch exactly once from its start to its outcome,
\* whatever the outcome; a call whose request fails in the transport goes
\* from waiting straight to rejected with that failure, stays rejected with
\* it, and calls fetch no second time.
C12_OneRequestNoRetry ==
    /\ [](\A c \in Slots :
            /\ calls[c].pc = "idle" => Len(calls[c].fetched) = 0
            /\ calls[c].pc # "idle" => Len(calls[c].fetched) = 1
            /\ calls[c].pc = "rejected" /\ calls[c].response = NoResponse
                   => calls[c].result = TransportFailure)
    /\ [][\A c \in Slots :
            /\ calls[c].pc # "idle" /\ calls'[c].pc # "idle"
                   => calls'[c].fetched = calls[c].fetched
            /\ calls[c].pc = "fetch" /\ calls'[c].pc # "fetch"
               /\ calls'[c].response = NoResponse
                   => /\ calls'[c].pc = "rejected"
                      /\ calls'[c].result = TransportFailure
            /\ calls[c].pc = "rejected"
                   => \/ calls'[c] = calls[c]
                      \/ calls'[c].pc = "idle"]_vars

\* a call rejected by a transport failure beside a call that resolved, each
\* with one fetch
C12_Witness ==
    \E c, d \in Slots :
        /\ calls[c].pc = "rejected"
        /\ calls[c].response = NoResponse
        /\ calls[c].result = TransportFailure
        /\ Len(calls[c].fetched) = 1
        /\ calls[d].pc = "resolved"
        /\ Len(calls[d].fetched) = 1

\* the path of the operation of the call in slot c
PathOf(c) ==
    CASE calls[c].op = "createOrder" -> "/orders"
      [] calls[c].op = "getOrderInfo" -> "/orders/" \o calls[c].given.val
      [] calls[c].op = "refund" -> "/refund"
      [] calls[c].op = "complete" -> "/complete"
      [] calls[c].op = "autoPay" -> "/autoPay"

UrlsStartWith(prefix) ==
    \A c \in Slots :
        \A i \in 1..Len(calls[c].fetched) :
            calls[c].fetched[i].url = prefix \o PathOf(c)

\* a call of createOrder or autoPay that left out key k carries value v for it
OmittedSentAs(k, v) ==
    \A c \in Slots :
        /\ Called(c, "createOrder") \/ Called(c, "autoPay")
        /\ k \in OptionalOf(c) \ DOMAIN Request(c)
        => k \in DOMAIN SentBody(c) /\ SentBody(c)[k] = v

FixedEndpointAndDefaults ==
    /\ ~HasKey("baseUrl") => UrlsStartWith("https://api.payriff.com/api/v3")
    /\ ~HasKey("defaultLanguage") =>
           /\ client.val.defaultLanguage = Str("AZ")
           /\ OmittedSentAs("language", Str("AZ"))
    /\ ~HasKey("defaultCurrency") =>
           /\ client.val.defaultCurrency = Str("AZN")
           /\ OmittedSentAs("currency", Str("AZN"))

\* C13 as stated: without baseUrl, defaultLanguage and defaultCurrency the
\* client sends to https://api.payriff.com/api/v3 plus the path and defaults
\* to AZ and AZN; a supplied baseUrl is the prefix of every request's URL.
C13_SuppliedBaseUrlIsPrefix ==
    Constructed =>
        /\ client.type = "object"
        /\ FixedEndpointAndDefaults
        /\ HasKey("baseUrl") => UrlsStartWith(config.val["baseUrl"].val)

\* C13 as amended: the same, for a supplied baseUrl that is not empty.
C13_NonEmptyBaseUrlIsPrefix ==
    Constructed =>
        /\ client.type = "object"
        /\ FixedEndpointAndDefaults
        /\ HasKey("baseUrl") /\ Truthy(config.val["baseUrl"]) =>
               UrlsStartWith(config.val["baseUrl"].val)

\* a createOrder without optional fields on a client constructed from {},
\* sent to the fixed endpoint with AZ and AZN
C13_Witness ==
    /\ config.type = "object"
    /\ DOMAIN config.val = {}
    /\ \E c \in Slots :
           /\ Called(c, "createOrder")
           /\ DOMAIN Request(c) = {"amount", "description"}
           /\ Sent(c).url = "https://api.payriff.com/api/v3/orders"
           /\ SentBody(c)["language"] = Str("AZ")
           /\ SentBody(c)["currency"] = Str("AZN")

\* C14: PAYRIFF_SECRET_KEY and PAYRIFF_CALLBACK_URL are resolved while the
\* client is constructed: a client constructed without secretKey or
\* defaultCallbackUrl takes the value the variable holds at that moment (''
\* when it is unset), an explicit value overrides it, and the environment
\* changing later changes nothing of a constructed client.
C14_EnvironmentReadAtConstruction ==
    [][/\ client = Undefined /\ client' # Undefined =>
              LET cfg == IF config'.type = "object" THEN config'.val
                         ELSE << >>
                  explicitKey == Get(cfg, "secretKey")
                  explicitUrl == Get(cfg, "defaultCallbackUrl")
              IN  /\ client'.type = "object"
                  /\ client'.val.secretKey =
                         IF Truthy(explicitKey) THEN explicitKey
                         ELSE Or(env.PAYRIFF_SECRET_KEY, Str(""))
                  /\ client'.val.defaultCallbackUrl =
                         IF Truthy(explicitUrl) THEN explicitUrl
                         ELSE Or(env.PAYRIFF_CALLBACK_URL, Str(""))
       /\ client # Undefined => client' = client]_vars

ClientFields ==
    {"secretKey", "baseUrl", "defaultLanguage", "defaultCurrency",
     "defaultCallbackUrl", "headers"}

\* C15: the client configuration is immutable: whatever calls of the six
\* operations have been made and however they ended, the client's base URL,
\* secret key, headers, default language, default currency and default
\* callback URL are the values the constructor set, and the client has no
\* other field.
C15_ClientImmutable ==
    Constructed =>
        /\ client.type = "object"
        /\ DOMAIN client.val = ClientFields
        /\ \A k \in ClientFields :
               client.val[k] = constructor(config, statics.val).val[k]

\* isSuccessful has been called and a createOrder carrying its own language
\* has ended, here in a rejection
C15_Witness ==
    /\ Constructed
    /\ checked.done
    /\ \E c \in Slots :
           /\ Called(c, "createOrder")
           /\ calls[c].pc = "rejected"
           /\ Truthy(Get(Request(c), "language"))

\* C16: createOrder and autoPay never change the request record of the
\* caller: while the call is pending and after it has resolved or rejected
\* the caller's object has exactly the fields and values it was given with,
\* and the defaults are only in the copy that was sent.
C16_RequestNotMutated ==
    \A c \in Slots :
        Called(c, "createOrder") \/ Called(c, "autoPay") =>
            /\ calls[c].arg = calls[c].given
            /\ \A k \in OptionalOf(c) \ DOMAIN calls[c].arg.val :
                   k \in DOMAIN SentBody(c)

\* a createOrder that gave amount and description only has rejected: the
\* body sent has the five defaults, the caller's object still two fields
C16_Witness ==
    \E c \in Slots :
        /\ Called(c, "createOrder")
        /\ calls[c].pc = "rejected"
        /\ DOMAIN calls[c].arg.val = {"amount", "description"}
        /\ CreateOrderOptional \subseteq DOMAIN SentBody(c)

\* the fetch call the operation makes when it is the only call on a client
\* constructed from the same configuration
SentAlone(op, arg) ==
    LET this == constructor(config, statics.val).val
    IN  CASE op = "createOrder" -> createOrder(this, arg)
          [] op = "getOrderInfo" -> getOrderInfo(this, arg)
          [] op = "refund" -> refund(this, arg)
          [] op = "complete" -> complete(this, arg)
          [] op = "autoPay" -> autoPay(this, arg)

\* C17: calls running at the same time on one client are independent: in
\* every interleaving each call has sent exactly the request (URL, method,
\* headers, body) it sends when run alone, a resolved call holds the parsed
\* body of the response to its own request, and a rejected call holds the
\* failure of its own request or of parsing its own response.
C17_ConcurrentCallsIndependent ==
    \A c \in Slots :
        calls[c].pc # "idle" =>
            /\ calls[c].fetched = <<SentAlone(calls[c].op, calls[c].given)>>
            /\ calls[c].pc = "resolved" =>
                   /\ calls[c].response # NoResponse
                   /\ Normal(calls[c].result) =
                          ResponseJson(calls[c].response.body)
            /\ calls[c].pc = "rejected" =>
                   IF calls[c].response = NoResponse
                   THEN calls[c].result = TransportFailure
                   ELSE Throw(calls[c].result) =
                            ResponseJson(calls[c].response.body)

\* two calls of different operations have overlapped and ended differently:
\* one resolved with the success envelope, the other rejected on an HTML
\* body
C17_Witness ==
    \E c, d \in Slots :
        /\ Called(c, "createOrder") /\ Called(d, "getOrderInfo")
        /\ calls[c].pc = "resolved" /\ calls[c].response.body = BodySuccess
        /\ calls[d].pc = "rejected" /\ calls[d].response.body = BodyHtml

Settled(c) == calls[c].pc \in {"resolved", "rejected"}

\* C18: a call of a request-issuing operation stays pending until the
\* transport has answered its request: it completes only in the step in
\* which its request fails or the body of its response has been read, and,
\* given that the transport answers every request, every call that has sent
\* its request eventually resolves with the parsed envelope or rejects.
C18_PendingUntilAnswered ==
    /\ [][\A c \in Answers.ids :
              ~Settled(c) /\ Settled(c)' =>
                  \/ /\ calls[c].pc = "fetch"
                     /\ calls'[c].pc = "rejected"
                     /\ calls'[c].result = TransportFailure
                  \/ /\ calls[c].pc = "json"
                     /\ calls[c].response # NoResponse
                     /\ calls'[c].response = calls[c].response]_vars
    /\ \A c \in Answers.ids : calls[c].pc = "fetch" ~> Settled(c)

\* one call has resolved with the response to its request while another is
\* still waiting for the transport
C18_Witness ==
    \E c, d \in Slots :
        /\ calls[c].pc = "resolved"
        /\ calls[c].response # NoResponse
        /\ calls[d].pc = "fetch"

EmptyMeansOmitted == {"baseUrl", "secretKey", "defaultCallbackUrl"}

\* the configuration fields given as ''
GivenEmpty ==
    {k \in EmptyMeansOmitted : HasKey(k) /\ config.val[k] = Str("")}

\* the configuration without them
WithoutEmpty ==
    Obj([k \in DOMAIN config.val \ GivenEmpty |-> config.val[k]])

\* C19: the constructor treats baseUrl, secretKey and defaultCallbackUrl
\* given as '' as omitted: the client is the one the configuration without
\* these fields gives, with the fixed endpoint, the secret key and the
\* callback URL the class took from the environment in their place, and the
\* Authorization header of every request is that secret key.
C19_EmptyStringIsOmitted ==
    Constructed /\ GivenEmpty # {} =>
        /\ client.type = "object"
        /\ client.val = constructor(WithoutEmpty, statics.val).val
        /\ "baseUrl" \in GivenEmpty => client.val.baseUrl = DEFAULT_BASE_URL
        /\ "secretKey" \in GivenEmpty =>
               /\ client.val.secretKey = statics.val.DEFAULT_SECRET_KEY
               /\ HeadersAre(statics.val.DEFAULT_SECRET_KEY)
        /\ "defaultCallbackUrl" \in GivenEmpty =>
               client.val.defaultCallbackUrl =
                   statics.val.DEFAULT_CALLBACK_URL

\* secretKey '' in the configuration, PAYRIFF_SECRET_KEY set: a request has
\* gone out with the environment's key
C19_Witness ==
    /\ Constructed
    /\ GivenEmpty = EmptyMeansOmitted
    /\ env.PAYRIFF_SECRET_KEY = EnvKey
    /\ statics.val.DEFAULT_SECRET_KEY = EnvKey
    /\ \E c \in Slots :
           /\ Called(c, "refund")
           /\ Sent(c).init["headers"]["Authorization"] = EnvKey
           /\ Sent(c).url = DEFAULT_BASE_URL.val \o "/refund"

\* C20: when neither the configuration nor PAYRIFF_CALLBACK_URL gives a
\* callback URL, every createOrder and autoPay request whose callbackUrl key
\* is absent is sent with callbackUrl in its body, equal to ''.
C20_EmptyCallbackUrlIsSent ==
    /\ Constructed
    /\ ~HasKey("defaultCallbackUrl")
    /\ ~Truthy(env.PAYRIFF_CALLBACK_URL)
    /\ ~Truthy(statics.val.DEFAULT_CALLBACK_URL)
    => \A c \in Slots :
           /\ Called(c, "createOrder") \/ Called(c, "autoPay")
           /\ "callbackUrl" \notin DOMAIN Request(c)
           => /\ "callbackUrl" \in DOMAIN SentBody(c)
              /\ SentBody(c)["callbackUrl"] = Str("")

\* an autoPay without callbackUrl on a client constructed without arguments,
\* PAYRIFF_CALLBACK_URL unset
C20_Witness ==
    /\ config = Undefined
    /\ env.PAYRIFF_CALLBACK_URL = Undefined
    /\ \E c \in Slots :
           /\ Called(c, "autoPay")
           /\ "callbackUrl" \notin DOMAIN Request(c)
           /\ SentBody(c)["callbackUrl"] = Str("")

=============================================================================
